---- MODULE Spec2Model ----
(***************************************************************************)
(* A model of the scalable cuckoo filter (sile/scalable_cuckoo_filter).    *)
(*                                                                         *)
(* State: the builder's configuration, the list of CuckooFilters of one    *)
(* ScalableCuckooFilter, and history variables that count the calls made   *)
(* and the items they left in the set.  Every public operation (finish,      *)
(* insert, remove, shrink_to_fit) is one action; contains, len, capacity   *)
(* and is_nearly_full are queries and are operators.  Random choices (the  *)
(* coin of insert_fingerprint, the slot of random_swap) are existential    *)
(* choices.                                                                *)
(*                                                                         *)
(* A u64 hash is modelled as a HashBits-bit word: its top bits give the    *)
(* fingerprint and its low bits the bucket index, as in the source; the    *)
(* item hashes are chosen so the two bit ranges never overlap.             *)
(* A usize counter that wrapped below zero (release build) is held as its  *)
(* two's-complement representative: -1 stands for usize::MAX.              *)
(***************************************************************************)
EXTENDS Integers, Sequences, FiniteSets, TLC

\* ------------------------------------------------------------------ bounds

\* Width of a hash word in the model (64 in the source).
HashBits == 8

\* Largest number of insert calls in one behaviour.
MaxInserts == 3

\* max_kicks is drawn from 0..MaxKicks (the builder accepts any usize).
MaxKicks == 2

\* Largest number of filters the growth schedule is followed to.
MaxFilters == 3
MaxBitsCalls == 2

\* ----------------------------------------------------------------- helpers

RECURSIVE Pow2(_)
Pow2(n) == IF n = 0 THEN 1 ELSE 2 * Pow2(n - 1)

\* Bitwise exclusive or of two naturals (the ^ of u64).
RECURSIVE Xor(_, _)
Xor(a, b) ==
    IF a = 0 THEN b
    ELSE IF b = 0 THEN a
    ELSE (((a % 2) + (b % 2)) % 2) + (2 * Xor(a \div 2, b \div 2))

\* usize::div_ceil
div_ceil(n, d) == (n + d - 1) \div d

\* usize::next_power_of_two: the smallest power of two >= n (1 for n = 0).
RECURSIVE NextPow2From(_, _)
NextPow2From(n, p) == IF p >= n THEN p ELSE NextPow2From(n, 2 * p)

next_power_of_two(n) == NextPow2From(n, 1)

\* usize::trailing_zeros of a power of two.
RECURSIVE trailing_zeros(_)
trailing_zeros(n) == IF n % 2 = 1 THEN 0 ELSE 1 + trailing_zeros(n \div 2)

\* ceil(log2(n)) for an integer n >= 1.
CeilLog2(n) == trailing_zeros(next_power_of_two(n))

\* Lexicographic order of the (u64, usize) tuples of ExceptionalItems.
TupleLess(x, y) == x[1] < y[1] \/ (x[1] = y[1] /\ x[2] < y[2])

Min(a, b) == IF a <= b THEN a ELSE b

\* ------------------------------------------------------------------ hashing

\* The items the client inserts, queries and removes.
Items == {"z", "y", "w", "x", "c", "d"}

\* A hash word with the given top five bits and low bits.
Word(top, low) == top * Pow2(HashBits - 5) + low

\* crate::hash(hasher, item) for an item: the hasher is an external
\* collaborator (SipHash-1-3 with its fixed default key), so the model fixes
\* one hash per item.  "z" has fingerprint 0 at every width; "y", "w" and
\* "x" share their two top bits, "y" and "w" their four top bits; "d" is the
\* one item whose hash has its lowest bit set.
hash_item(item) ==
    CASE item = "z" -> Word(0, 0)
      [] item = "y" -> Word(16, 0)
      [] item = "w" -> Word(17, 0)
      [] item = "x" -> Word(20, 0)
      [] item = "c" -> Word(8, 0)
      [] OTHER      -> Word(16, 1)

\* crate::hash(hasher, &fingerprint): a fixed function of the fingerprint,
\* mixing odd and even values so that some fingerprints have two distinct
\* candidate buckets and some only one.
hash_fingerprint(f) == ((7 * f) + (f \div 4)) % Pow2(HashBits)

\* --------------------------------------------------------------------- Bits

\* A u64 or u8 value is held as the set of the positions of its 1 bits, so
\* that a 64-bit word keeps its width: | is \cup and & is \cap.

\* x << n on u64 without overflow checks: the shift amount is taken modulo 64
\* and the bits moved past bit 63 are lost.
wrapping_shl(x, n) == {i + (n % 64) : i \in x} \cap (0..63)

\* x >> n on u64 without overflow checks.
wrapping_shr(x, n) == {i - (n % 64) : i \in x} \cap (0..63)

\* A shift of a u64 by n is an arithmetic overflow: a panic under overflow
\* checks (the dev profile), the wrapping shift without them.
shift_overflows(n) == n >= 64

\* x as u8.
as_u8(x) == x \cap (0..7)

\* x - 1, for x # 0.
sub_one(x) ==
    LET lowest == CHOOSE i \in x : \A j \in x : i <= j
    IN  (x \ {lowest}) \cup (0..(lowest - 1))

\* Bits::new: ceil(size_hint / 8) zero bytes.
Bits_new(size_hint) == [i \in 1..div_ceil(size_hint, 8) |-> {}]

\* Bits::len.
Bits_len(b) == Len(b) * 8

\* Bits::get_uint: the value the wrapping arithmetic returns, and whether a
\* shift of the call overflows.
get_uint(b, position, size) ==
    LET start == position \div 8
        end == div_ceil(position + size, 8)
        value == UNION {wrapping_shl(b[start + 1 + i], i * 8) : i \in 0..(end - start - 1)}
        offset == position % 8
        mask == sub_one(wrapping_shl({0}, size))
    IN  [ret |-> wrapping_shr(value, offset) \cap mask,
         overflow |-> \/ shift_overflows(size)
                      \/ \E i \in 0..(end - start - 1) : shift_overflows(i * 8)]

\* The loop of Bits::set_uint from byte idx on.
RECURSIVE SetUintFrom(_, _, _, _, _, _)
SetUintFrom(b, idx, size, value, offset, overflow) ==
    IF idx > Len(b)
    THEN [bits |-> b, overflow |-> overflow]
    ELSE LET high == as_u8(wrapping_shl(wrapping_shr(b[idx], size + offset), size + offset))
             middle == as_u8(wrapping_shl(value, offset))
             low == b[idx] \cap sub_one({offset})
             stored == [b EXCEPT ![idx] = (high \cup middle) \cup low]
             drop_bits == 8 - offset
             overflowed == overflow \/ shift_overflows(size + offset)
         IN  IF size <= drop_bits
             THEN [bits |-> stored, overflow |-> overflowed]
             ELSE SetUintFrom(stored, idx + 1, size - drop_bits,
                              wrapping_shr(value, drop_bits), 0, overflowed)

\* Bits::set_uint: the bytes the wrapping arithmetic leaves, and whether a
\* shift of the call overflows.
set_uint(b, position, size, value) ==
    SetUintFrom(b, (position \div 8) + 1, size, value, position % 8, FALSE)

\* ------------------------------------------------------------------ Buckets
\* A Buckets value is a record
\*   [fingerprint_bitwidth, entries_per_bucket, bucket_index_bitwidth, bits]
\* where bits[i][e] is the fingerprint field of entry e of bucket i
\* (get_fingerprint / set_fingerprint over the packed Bits).

Buckets_new(fingerprint_bitwidth, entries_per_bucket, number_of_buckets_hint) ==
    LET bucket_index_bitwidth ==
            trailing_zeros(next_power_of_two(number_of_buckets_hint))
    IN  [fingerprint_bitwidth |-> fingerprint_bitwidth,
         entries_per_bucket |-> entries_per_bucket,
         bucket_index_bitwidth |-> bucket_index_bitwidth,
         bits |-> [i \in 0..(Pow2(bucket_index_bitwidth) - 1) |->
                      [e \in 0..(entries_per_bucket - 1) |-> 0]]]

required_number_of_buckets(number_of_buckets_hint) ==
    next_power_of_two(number_of_buckets_hint)

Buckets_len(b) == Pow2(b.bucket_index_bitwidth)

Buckets_entries(b) == Buckets_len(b) * b.entries_per_bucket

\* An index taken modulo one more than the number of buckets.
Buckets_index_Wide(b, hash) == hash % (Pow2(b.bucket_index_bitwidth) + 1)

\* hash & ((1 << bucket_index_bitwidth) - 1)
Buckets_index(b, hash) == hash % Pow2(b.bucket_index_bitwidth)

\* hash >> (64 - fingerprint_bitwidth)
Buckets_fingerprint(b, hash) == hash \div Pow2(HashBits - b.fingerprint_bitwidth)

get_fingerprint(b, bucket_index, entry_index) == b.bits[bucket_index][entry_index]

set_fingerprint(b, bucket_index, entry_index, fingerprint) ==
    [b EXCEPT !.bits[bucket_index][entry_index] = fingerprint]

EntryRange(b) == 0..(b.entries_per_bucket - 1)

\* The first entry of the bucket holding f, or -1.
FirstEntry(b, bucket_index, f) ==
    IF \E e \in EntryRange(b) : get_fingerprint(b, bucket_index, e) = f
    THEN CHOOSE e \in EntryRange(b) :
            /\ get_fingerprint(b, bucket_index, e) = f
            /\ \A d \in EntryRange(b) :
                    d < e => get_fingerprint(b, bucket_index, d) # f
    ELSE -1

Buckets_contains(b, bucket_index, fingerprint) ==
    \E e \in EntryRange(b) : get_fingerprint(b, bucket_index, e) = fingerprint

\* Returns [ok, buckets]: the fingerprint goes to the first entry holding 0.
\* try_insert that finds no free entry.
Buckets_try_insert_Never(b, bucket_index, fingerprint) == [ok |-> FALSE, buckets |-> b]

Buckets_try_insert(b, bucket_index, fingerprint) ==
    LET e == FirstEntry(b, bucket_index, 0)
    IN  IF e >= 0
        THEN [ok |-> TRUE, buckets |-> set_fingerprint(b, bucket_index, e, fingerprint)]
        ELSE [ok |-> FALSE, buckets |-> b]

\* A random_swap that returns the displaced fingerprint without storing the
\* incoming one.
Buckets_random_swap_NoStore(b, i, bucket_index, fingerprint) ==
    [f |-> get_fingerprint(b, bucket_index, i), buckets |-> b]

\* random_swap with the rng having drawn entry i: returns [f, buckets].
Buckets_random_swap(b, i, bucket_index, fingerprint) ==
    [f |-> get_fingerprint(b, bucket_index, i),
     buckets |-> set_fingerprint(b, bucket_index, i, fingerprint)]

\* Returns [ok, buckets]: the first entry equal to the fingerprint is zeroed.
Buckets_remove_fingerprint(b, bucket_index, fingerprint) ==
    LET e == FirstEntry(b, bucket_index, fingerprint)
    IN  IF e >= 0
        THEN [ok |-> TRUE, buckets |-> set_fingerprint(b, bucket_index, e, 0)]
        ELSE [ok |-> FALSE, buckets |-> b]

\* Iter::next run to exhaustion from (bucket_i, entry_i): the sequence of
\* (bucket index, fingerprint) pairs it yields.  A zero entry moves the
\* iterator to the next bucket.
RECURSIVE IterFrom(_, _, _)
IterFrom(b, bucket_i, entry_i) ==
    IF bucket_i = Buckets_len(b) THEN << >>
    ELSE IF entry_i = b.entries_per_bucket THEN IterFrom(b, bucket_i + 1, 0)
    ELSE LET f == get_fingerprint(b, bucket_i, entry_i)
         IN  IF f = 0
             THEN IterFrom(b, bucket_i + 1, 0)
             ELSE << <<bucket_i, f>> >> \o IterFrom(b, bucket_i, entry_i + 1)

Buckets_iter(b) == IterFrom(b, 0, 0)

\* --------------------------------------------------------- ExceptionalItems
\* A sequence of <<fingerprint, min(i0, i1)>> tuples.

\* slice::binary_search on a sorted sequence: [found, index], the index of a
\* match, or the place where the item can be inserted keeping the order.
binary_search(v, item) ==
    IF \E k \in 1..Len(v) : v[k] = item
    THEN [found |-> TRUE, index |-> CHOOSE k \in 1..Len(v) : v[k] = item]
    ELSE [found |-> FALSE,
          index |-> 1 + Cardinality({k \in 1..Len(v) : TupleLess(v[k], item)})]

\* contains_kicked_out_entries that looks at the first element.
ExceptionalItems_contains_kicked_out_entries_First(v) ==
    Len(v) > 0 /\ v[1][1] # 0

ExceptionalItems_contains_kicked_out_entries(v) ==
    Len(v) > 0 /\ v[Len(v)][1] # 0

ExceptionalItems_contains(v, i0, i1, fingerprint) ==
    binary_search(v, <<fingerprint, Min(i0, i1)>>).found

\* insert that pushes the item at the end of the list.
ExceptionalItems_insert_Push(v, i0, i1, fingerprint) ==
    Append(v, <<fingerprint, Min(i0, i1)>>)

ExceptionalItems_insert(v, i0, i1, fingerprint) ==
    LET item == <<fingerprint, Min(i0, i1)>>
        index == binary_search(v, item).index
    IN  SubSeq(v, 1, index - 1) \o <<item>> \o SubSeq(v, index, Len(v))

\* Returns [ok, items].
ExceptionalItems_remove(v, i0, i1, fingerprint) ==
    LET r == binary_search(v, <<fingerprint, Min(i0, i1)>>)
    IN  IF r.found
        THEN [ok |-> TRUE,
              items |-> SubSeq(v, 1, r.index - 1) \o SubSeq(v, r.index + 1, Len(v))]
        ELSE [ok |-> FALSE, items |-> v]

\* -------------------------------------------------------------- CuckooFilter
\* A CuckooFilter value is a record
\*   [buckets, max_kicks, exceptional_items, item_count].

CuckooFilter_new(fingerprint_bitwidth, entries_per_bucket, number_of_items_hint, max_kicks) ==
    LET number_of_buckets_hint == div_ceil(number_of_items_hint, entries_per_bucket)
    IN  [buckets |-> Buckets_new(fingerprint_bitwidth, entries_per_bucket,
                                 number_of_buckets_hint),
         max_kicks |-> max_kicks,
         exceptional_items |-> << >>,
         item_count |-> 0]

CuckooFilter_len(flt) == flt.item_count

CuckooFilter_capacity(flt) ==
    Buckets_entries(flt.buckets) + Len(flt.exceptional_items)

is_nearly_full(flt) ==
    ExceptionalItems_contains_kicked_out_entries(flt.exceptional_items)

\* The other candidate bucket of fingerprint f seen from bucket i:
\* buckets.index(i as u64 ^ crate::hash(hasher, &fingerprint)).
\* The other bucket computed by addition instead of XOR.
AltIndex_Plus(b, i, f) == Buckets_index(b, i + hash_fingerprint(f))

AltIndex(b, i, f) == Buckets_index(b, Xor(i, hash_fingerprint(f)))

contains_fingerprint(flt, i0, i1, fingerprint) ==
    IF ExceptionalItems_contains(flt.exceptional_items, i0, i1, fingerprint)
    THEN TRUE
    ELSE IF fingerprint = 0
    THEN FALSE
    ELSE \/ Buckets_contains(flt.buckets, i0, fingerprint)
         \/ Buckets_contains(flt.buckets, i1, fingerprint)

CuckooFilter_contains(flt, item_hash) ==
    LET fingerprint == Buckets_fingerprint(flt.buckets, item_hash)
        i0 == Buckets_index(flt.buckets, item_hash)
        i1 == AltIndex(flt.buckets, i0, fingerprint)
    IN  contains_fingerprint(flt, i0, i1, fingerprint)

\* The eviction loop of insert_fingerprint with n iterations left, carrying
\* `fingerprint` at bucket i.  The result is the set of outcomes over the
\* rng's draws; an outcome is [filter, swaps, parked, zero_seen]: the filter,
\* the number of random_swap calls made, whether the loop gave up and parked
\* the carried fingerprint in ExceptionalItems, and whether a random_swap
\* displaced or wrote a zero (its debug assertions).
\* An insert that gives up when both candidate buckets are full.
KickLoop_GiveUp(flt, fingerprint, i, prev_i, n, swaps, zero_seen) ==
    {[filter |-> flt, swaps |-> swaps, parked |-> FALSE, zero_seen |-> zero_seen]}

RECURSIVE KickLoop(_, _, _, _, _, _, _)
KickLoop(flt, fingerprint, i, prev_i, n, swaps, zero_seen) ==
    IF n = 0
    THEN {[filter |-> [flt EXCEPT !.exceptional_items =
                          ExceptionalItems_insert(@, prev_i, i, fingerprint)],
           swaps |-> swaps, parked |-> TRUE, zero_seen |-> zero_seen]}
    ELSE UNION {
            LET sw == Buckets_random_swap(flt.buckets, e, i, fingerprint)
                f == sw.f
                next_i == AltIndex(flt.buckets, i, f)
                ti == Buckets_try_insert(sw.buckets, next_i, f)
                z == zero_seen \/ f = 0 \/ fingerprint = 0
            IN  IF ti.ok
                THEN {[filter |-> [flt EXCEPT !.buckets = ti.buckets],
                       swaps |-> swaps + 1, parked |-> FALSE, zero_seen |-> z]}
                ELSE KickLoop([flt EXCEPT !.buckets = sw.buckets], f, next_i, i,
                              n - 1, swaps + 1, z)
            : e \in EntryRange(flt.buckets)}

\* insert_fingerprint: the set of outcomes over the rng's draws.
insert_fingerprint(flt, i0, fingerprint) ==
    LET i1 == AltIndex(flt.buckets, i0, fingerprint)
        counted == [flt EXCEPT !.item_count = @ + 1]
        t0 == Buckets_try_insert(flt.buckets, i0, fingerprint)
        t1 == Buckets_try_insert(flt.buckets, i1, fingerprint)
    IN  IF fingerprint = 0
        THEN {[filter |-> [counted EXCEPT !.exceptional_items =
                              ExceptionalItems_insert(@, i0, i1, 0)],
               swaps |-> 0, parked |-> FALSE, zero_seen |-> FALSE]}
        ELSE IF t0.ok
        THEN {[filter |-> [counted EXCEPT !.buckets = t0.buckets],
               swaps |-> 0, parked |-> FALSE, zero_seen |-> FALSE]}
        ELSE IF t1.ok
        THEN {[filter |-> [counted EXCEPT !.buckets = t1.buckets],
               swaps |-> 0, parked |-> FALSE, zero_seen |-> FALSE]}
        ELSE UNION {KickLoop(counted, fingerprint, i, i, flt.max_kicks, 0, FALSE)
                    : i \in {i0, i1}}

CuckooFilter_insert(flt, item_hash) ==
    LET fingerprint == Buckets_fingerprint(flt.buckets, item_hash)
        i0 == Buckets_index(flt.buckets, item_hash)
    IN  insert_fingerprint(flt, i0, fingerprint)

\* CuckooFilter::remove: [filter, removed, panicked].  With debug assertions
\* the call panics when Buckets::contains is reached with fingerprint 0, and
\* when item_count would go below 0; without them Buckets::contains(i, 0)
\* matches an empty entry and the counter wraps.
CuckooFilter_remove(flt, item_hash, debug) ==
    LET fingerprint == Buckets_fingerprint(flt.buckets, item_hash)
        i0 == Buckets_index(flt.buckets, item_hash)
        i1 == AltIndex(flt.buckets, i0, fingerprint)
        in_exceptional ==
            ExceptionalItems_contains(flt.exceptional_items, i0, i1, fingerprint)
        ex == ExceptionalItems_remove(flt.exceptional_items, i0, i1, fingerprint)
        r0 == Buckets_remove_fingerprint(flt.buckets, i0, fingerprint)
        r1 == Buckets_remove_fingerprint(flt.buckets, i1, fingerprint)
        after ==
            IF in_exceptional
            THEN [filter |-> [flt EXCEPT !.exceptional_items = ex.items],
                  removed |-> ex.ok]
            ELSE IF Buckets_contains(flt.buckets, i0, fingerprint)
            THEN [filter |-> [flt EXCEPT !.buckets = r0.buckets], removed |-> r0.ok]
            ELSE IF Buckets_contains(flt.buckets, i1, fingerprint)
            THEN [filter |-> [flt EXCEPT !.buckets = r1.buckets], removed |-> r1.ok]
            ELSE [filter |-> flt, removed |-> FALSE]
    IN  IF debug /\ ~in_exceptional /\ fingerprint = 0
        THEN [filter |-> flt, removed |-> FALSE, panicked |-> TRUE]
        ELSE IF ~after.removed
        THEN [filter |-> after.filter, removed |-> FALSE, panicked |-> FALSE]
        ELSE IF debug /\ flt.item_count = 0
        THEN [filter |-> flt, removed |-> FALSE, panicked |-> TRUE]
        ELSE [filter |-> [after.filter EXCEPT !.item_count = @ - 1],
              removed |-> TRUE, panicked |-> FALSE]

\* The replay loop of shrink_to_fit from position k of the iterator's output:
\* the set of [filter, zero_seen] outcomes.
RECURSIVE Replay(_, _, _, _)
Replay(entries, k, shrunk_filter, zero_seen) ==
    IF k > Len(entries)
    THEN {[filter |-> shrunk_filter, zero_seen |-> zero_seen]}
    ELSE LET shrunk_i == Buckets_index(shrunk_filter.buckets, entries[k][1])
         IN  UNION {Replay(entries, k + 1, o.filter, zero_seen \/ o.zero_seen)
                    : o \in insert_fingerprint(shrunk_filter, shrunk_i, entries[k][2])}

\* shrink_to_fit that rebuilds the filter whatever bucket count is required.
CuckooFilter_shrink_to_fit_Always(flt) ==
    Replay(Buckets_iter(flt.buckets), 1,
           CuckooFilter_new(flt.buckets.fingerprint_bitwidth,
                            flt.buckets.entries_per_bucket, flt.item_count,
                            flt.max_kicks),
           FALSE)

\* CuckooFilter::shrink_to_fit: the set of [filter, zero_seen] outcomes.
CuckooFilter_shrink_to_fit(flt) ==
    LET entries_per_bucket == flt.buckets.entries_per_bucket
        shrunk_buckets_len ==
            required_number_of_buckets(div_ceil(flt.item_count, entries_per_bucket))
    IN  IF shrunk_buckets_len < Buckets_len(flt.buckets)
        THEN Replay(Buckets_iter(flt.buckets), 1,
                    CuckooFilter_new(flt.buckets.fingerprint_bitwidth,
                                     entries_per_bucket, flt.item_count,
                                     flt.max_kicks),
                    FALSE)
        ELSE {[filter |-> flt, zero_seen |-> FALSE]}

\* ------------------------------------------------------ ScalableCuckooFilter

VARIABLES
    cfg,        \* the builder's parameters
    profile,    \* the build profile, as far as the calls made have shown it
    filters,    \* ScalableCuckooFilter.filters
    present,    \* history: per item, inserts minus removes that returned true
    inserts,    \* history: the number of insert calls
    removes,    \* history: the number of remove calls that returned true
    bits,       \* a Bits value: Bits.0, the byte vector
    bits_call   \* history: the last call made on bits

vars == <<cfg, profile, filters, present, inserts, removes, bits, bits_call>>

\* grow(): the filter list with one more filter.  The probability p is held
\* as its inverse p_inv, so ceil(log2(1/p_k) + log2(2 E)) is the ceiling of
\* the logarithm of the integer p_inv * 2^(k+1) * 2 * E.
grow_SameWidth(c, fs) ==
    LET capacity == c.initial_capacity * Pow2(Len(fs))
        fingerprint_bitwidth == CeilLog2((c.p_inv * 2) * (2 * c.entries_per_bucket))
    IN  Append(fs, CuckooFilter_new(fingerprint_bitwidth, c.entries_per_bucket,
                                    capacity, c.max_kicks))

grow(c, fs) ==
    LET capacity == c.initial_capacity * Pow2(Len(fs))
        inv_probability == c.p_inv * Pow2(Len(fs) + 1)
        fingerprint_bitwidth == CeilLog2(inv_probability * (2 * c.entries_per_bucket))
    IN  Append(fs, CuckooFilter_new(fingerprint_bitwidth, c.entries_per_bucket,
                                    capacity, c.max_kicks))

\* finish that calls grow() twice.
finish_Twice(c) == grow(c, grow(c, << >>))

\* ScalableCuckooFilterBuilder::finish
finish(c) == grow(c, << >>)

RECURSIVE SumLen(_, _)
SumLen(fs, k) == IF k > Len(fs) THEN 0 ELSE CuckooFilter_len(fs[k]) + SumLen(fs, k + 1)

ScalableCuckooFilter_len(fs) == SumLen(fs, 1)

is_empty(fs) == ScalableCuckooFilter_len(fs) = 0

RECURSIVE SumCapacity(_, _)
SumCapacity(fs, k) ==
    IF k > Len(fs) THEN 0 ELSE CuckooFilter_capacity(fs[k]) + SumCapacity(fs, k + 1)

ScalableCuckooFilter_capacity(fs) == SumCapacity(fs, 1)

ScalableCuckooFilter_contains(fs, item) ==
    LET item_hash == hash_item(item)
    IN  \E k \in 1..Len(fs) : CuckooFilter_contains(fs[k], item_hash)

\* insert that goes into the first filter of the list.
ScalableCuckooFilter_insert_First(c, fs, item) ==
    {LET inserted_fs == [fs EXCEPT ![1] = o.filter]
     IN  [filters |-> IF is_nearly_full(inserted_fs[Len(fs)])
                      THEN grow(c, inserted_fs)
                      ELSE inserted_fs,
          swaps |-> o.swaps, parked |-> o.parked, zero_seen |-> o.zero_seen]
     : o \in CuckooFilter_insert(fs[1], hash_item(item))}

\* insert that calls grow() whatever is_nearly_full reports.
ScalableCuckooFilter_insert_AlwaysGrow(c, fs, item) ==
    {[filters |-> grow(c, [fs EXCEPT ![Len(fs)] = o.filter]),
      swaps |-> o.swaps, parked |-> o.parked, zero_seen |-> o.zero_seen]
     : o \in CuckooFilter_insert(fs[Len(fs)], hash_item(item))}

\* insert that never calls grow().
ScalableCuckooFilter_insert_NoGrow(c, fs, item) ==
    {[filters |-> [fs EXCEPT ![Len(fs)] = o.filter],
      swaps |-> o.swaps, parked |-> o.parked, zero_seen |-> o.zero_seen]
     : o \in CuckooFilter_insert(fs[Len(fs)], hash_item(item))}

\* ScalableCuckooFilter::insert: the set of outcomes
\* [filters, swaps, parked, zero_seen] over the rng's draws.
ScalableCuckooFilter_insert(c, fs, item) ==
    LET item_hash == hash_item(item)
        last == Len(fs)
    IN  {LET inserted_fs == [fs EXCEPT ![last] = o.filter]
         IN  [filters |-> IF is_nearly_full(inserted_fs[last])
                          THEN grow(c, inserted_fs)
                          ELSE inserted_fs,
              swaps |-> o.swaps, parked |-> o.parked, zero_seen |-> o.zero_seen]
         : o \in CuckooFilter_insert(fs[last], item_hash)}

\* ScalableCuckooFilter::remove from filter k on: [filters, ret, panicked].
RECURSIVE RemoveFrom(_, _, _, _)
RemoveFrom(fs, k, item_hash, debug) ==
    IF k > Len(fs)
    THEN [filters |-> fs, ret |-> FALSE, panicked |-> FALSE]
    ELSE LET r == CuckooFilter_remove(fs[k], item_hash, debug)
         IN  IF r.panicked
             THEN [filters |-> fs, ret |-> FALSE, panicked |-> TRUE]
             ELSE IF r.removed
             THEN [filters |-> [fs EXCEPT ![k] = r.filter], ret |-> TRUE,
                   panicked |-> FALSE]
             ELSE RemoveFrom(fs, k + 1, item_hash, debug)

ScalableCuckooFilter_remove(fs, item, debug) == RemoveFrom(fs, 1, hash_item(item), debug)

\* ScalableCuckooFilter::shrink_to_fit from filter k on: the set of
\* [filters, zero_seen] outcomes.
RECURSIVE ShrinkFrom(_, _, _)
ShrinkFrom(fs, k, zero_seen) ==
    IF k > Len(fs)
    THEN {[filters |-> fs, zero_seen |-> zero_seen]}
    ELSE UNION {ShrinkFrom([fs EXCEPT ![k] = o.filter], k + 1, zero_seen \/ o.zero_seen)
                : o \in CuckooFilter_shrink_to_fit(fs[k])}

\* shrink_to_fit that also drops the filters left without items.
ScalableCuckooFilter_shrink_to_fit_Compact(fs) ==
    {[o EXCEPT !.filters = SelectSeq(@, LAMBDA flt : flt.item_count # 0)]
     : o \in ShrinkFrom(fs, 1, FALSE)}

ScalableCuckooFilter_shrink_to_fit(fs) == ShrinkFrom(fs, 1, FALSE)

\* ----------------------------------------------------------- configurations

\* The configurations of the main specification, with p = 1:
\*   E = 1, initial_capacity 2: fingerprints of 2, 3, 4 ... bits in filters
\*          of 2, 4, 8 ... buckets;
\*   E = 2, initial_capacity 4: fingerprints of 3, 4, 5 ... bits in filters
\*          of 2, 4, 8 ... buckets.
Configs ==
    {c \in [initial_capacity : {2, 4}, p_inv : {1}, entries_per_bucket : {1, 2},
            max_kicks : {0, 1, MaxKicks}] :
        c.initial_capacity = 2 * c.entries_per_bucket}

\* Configurations whose first filter has 4 buckets of one entry (2-bit
\* fingerprints), so that shrink_to_fit can halve a filter that holds two
\* entries.
WideConfigs ==
    [initial_capacity : {4}, p_inv : {1}, entries_per_bucket : {1},
     max_kicks : {0, 1, MaxKicks}]

\* Small configurations, from a first filter of one bucket on, whose bucket
\* counts and fingerprint widths can be enumerated in full.
SmallConfigs ==
    [initial_capacity : 0..8, p_inv : {1}, entries_per_bucket : {1, 2},
     max_kicks : {0, 1, MaxKicks}]

\* The configurations the construction is checked on.
BuilderConfigs ==
    [initial_capacity : (0..16) \cup {100, 1000}, p_inv : {1, 1000},
     entries_per_bucket : 1..4, max_kicks : {MaxKicks}]

NoCounts == [x \in Items |-> 0]

\* No call has been made on bits.
NoCall == [op |-> "new", position |-> 0, size |-> 0, value |-> {}, ret |-> {}, overflow |-> FALSE, after_set |-> FALSE, calls |-> 0]

\* The specifications of the filter follow no separate Bits value.
UnusedBits == bits = << >> /\ bits_call = NoCall

\* A usize counter has wrapped below zero.
Wrapped == \E k \in 1..Len(filters) : filters[k].item_count < 0

\* The crate builds with debug assertions and overflow checks (the dev
\* profile) or without them (the release profile).  The two builds behave
\* alike until a call reaches a debug assertion that fails or a subtraction
\* that overflows: there the dev build panics and the release build goes on.
\* profile is "any" until such a call, and "debug" or "release" after it.

\* A panic has unwound the last call.
aborted == profile = "debug"

\* Calls are made while no call has panicked; exploration stops after the
\* first call in which the release build went past a failed check.
Running == profile = "any" /\ Len(filters) >= 1

\* ------------------------------------------------------------------ actions

Init ==
    /\ cfg \in Configs
    /\ profile = "any"
    /\ filters = finish(cfg)
    /\ present = NoCounts
    /\ inserts = 0
    /\ removes = 0
    /\ UnusedBits

InitWide ==
    /\ cfg \in WideConfigs
    /\ profile = "any"
    /\ filters = finish(cfg)
    /\ present = NoCounts
    /\ inserts = 0
    /\ removes = 0
    /\ UnusedBits

InitSmall ==
    /\ cfg \in SmallConfigs
    /\ profile = "any"
    /\ filters = << >>
    /\ present = NoCounts
    /\ inserts = 0
    /\ removes = 0
    /\ UnusedBits

InitBuilder ==
    /\ cfg \in BuilderConfigs
    /\ profile = "any"
    /\ filters = << >>
    /\ present = NoCounts
    /\ inserts = 0
    /\ removes = 0
    /\ UnusedBits

Finish ==
    /\ filters = << >>
    /\ filters' = finish(cfg)
    /\ UNCHANGED <<cfg, profile, present, inserts, removes, bits, bits_call>>

\* The call panics (dev profile): nothing else is observed of it.
Panic ==
    /\ profile' = "debug"
    /\ UNCHANGED filters

\* The call returns, leaving the filter list fs; diverged says that the dev
\* profile would have panicked in it.
Return(fs, diverged) ==
    /\ filters' = fs
    /\ profile' = IF diverged THEN "release" ELSE profile

Insert(item) ==
    /\ Running
    /\ inserts < MaxInserts
    /\ \E o \in ScalableCuckooFilter_insert(cfg, filters, item) :
          \/ o.zero_seen /\ Panic
          \/ Return(o.filters, o.zero_seen)
    /\ present' = [present EXCEPT ![item] = @ + 1]
    /\ inserts' = inserts + 1
    /\ UNCHANGED <<cfg, removes, bits, bits_call>>

\* remove(item), and the history of a call that returned ret.
RemoveCall(item) ==
    LET dev == ScalableCuckooFilter_remove(filters, item, TRUE)
        rel == ScalableCuckooFilter_remove(filters, item, FALSE)
    IN  \/ /\ dev.panicked
           /\ Panic
           /\ UNCHANGED <<present, removes>>
        \/ /\ Return(rel.filters, dev.panicked)
           /\ present' = IF rel.ret /\ present[item] > 0
                         THEN [present EXCEPT ![item] = @ - 1]
                         ELSE present
           /\ removes' = IF rel.ret THEN removes + 1 ELSE removes

\* remove of an item that has been inserted more often than removed.
RemovePresent(item) ==
    /\ Running
    /\ present[item] > 0
    /\ RemoveCall(item)
    /\ UNCHANGED <<cfg, inserts, bits, bits_call>>

\* remove of an item that is not in the set.
RemoveAbsent(item) ==
    /\ Running
    /\ present[item] = 0
    /\ RemoveCall(item)
    /\ UNCHANGED <<cfg, inserts, bits, bits_call>>

ShrinkToFit ==
    /\ Running
    /\ \E o \in ScalableCuckooFilter_shrink_to_fit(filters) :
          \/ o.zero_seen /\ Panic
          \/ Return(o.filters, o.zero_seen)
    /\ UNCHANGED <<cfg, present, inserts, removes, bits, bits_call>>

Next ==
    \/ \E item \in Items : Insert(item)
    \/ \E item \in Items : RemovePresent(item)
    \/ \E item \in Items : RemoveAbsent(item)
    \/ ShrinkToFit

Spec == Init /\ [][Next]_vars

\* All calls, on the configurations with a 4-bucket first filter.
SpecWide == InitWide /\ [][Next]_vars

\* Insert-only histories.
NextInsert == \E item \in Items : Insert(item)

SpecInsert == Init /\ [][NextInsert]_vars

\* Histories of insert and of remove of present items.
NextInsertRemove ==
    \/ \E item \in Items : Insert(item)
    \/ \E item \in Items : RemovePresent(item)

SpecInsertRemove == Init /\ [][NextInsertRemove]_vars

\* Histories of insert and remove calls (no shrink_to_fit).
NextNoShrink ==
    \/ \E item \in Items : Insert(item)
    \/ \E item \in Items : RemovePresent(item)
    \/ \E item \in Items : RemoveAbsent(item)

SpecNoShrink == Init /\ [][NextNoShrink]_vars

\* Construction alone, over the builder's configurations.
NextBuilder == Finish

SpecBuilder == InitBuilder /\ [][NextBuilder]_vars

\* A call of grow() (made by insert on kick overflow), followed on its own
\* over the builder's configurations.
Grow ==
    /\ Len(filters) \in 1..(MaxFilters - 1)
    /\ filters' = grow(cfg, filters)
    /\ UNCHANGED <<cfg, profile, present, inserts, removes, bits, bits_call>>

NextGrow == Finish \/ Grow

SpecGrow == InitBuilder /\ [][NextGrow]_vars

\* The same calls over the small configurations.
SpecGrowSmall == InitSmall /\ [][NextGrow]_vars

\* All calls, on configurations with the capacity hints 0 and 3.
HintConfigs ==
    [initial_capacity : {0, 3}, p_inv : {1}, entries_per_bucket : {1, 2},
     max_kicks : {1}]

InitHint ==
    /\ cfg \in HintConfigs
    /\ profile = "any"
    /\ filters = finish(cfg)
    /\ present = NoCounts
    /\ inserts = 0
    /\ removes = 0
    /\ UnusedBits

SpecHint == InitHint /\ [][Next]_vars

\* ScalableCuckooFilterBuilder::new: the default parameters.
DefaultConfig == [initial_capacity |-> 100000, p_inv |-> 1000, entries_per_bucket |-> 4, max_kicks |-> 512]

\* The arguments of the calls made on a Bits value: fields inside one byte,
\* across bytes, ending at bit 64 of their first byte, nine bytes long, and
\* of width 64; all ones, alternating bits, and the value 5.
BitsSizes == {72, 80}
Positions == {0, 3, 8}
Widths == {1, 5, 61, 64}
Values == {0..63, {i \in 0..63 : i % 2 = 0}, {0, 2}}

\* A Bits value alone, after Bits::new.
InitBits ==
    /\ cfg = DefaultConfig
    /\ profile = "any"
    /\ filters = << >>
    /\ present = NoCounts
    /\ inserts = 0
    /\ removes = 0
    /\ \E size_hint \in BitsSizes : bits = Bits_new(size_hint)
    /\ bits_call = NoCall

\* The end of the call recorded as c, which leaves the bytes b: a call in
\* which a shift overflows panics under overflow checks (the dev profile)
\* and returns the wrapped result without them.
BitsReturn(c, b, overflow) ==
    \/ /\ overflow
       /\ profile = "any"
       /\ profile' = "debug"
       /\ bits' = bits
       /\ bits_call' = [c EXCEPT !.ret = {}, !.overflow = TRUE]
    \/ /\ profile' = IF overflow /\ profile = "any" THEN "release" ELSE profile
       /\ bits' = b
       /\ bits_call' = [c EXCEPT !.overflow = overflow]

SetUint(position, size, value) ==
    /\ profile # "debug"
    /\ bits_call.calls < MaxBitsCalls
    /\ position + size <= Bits_len(bits)
    /\ LET o == set_uint(bits, position, size, value)
       IN  BitsReturn([op |-> "set", position |-> position, size |-> size, value |-> value, ret |-> {}, overflow |-> FALSE, after_set |-> FALSE, calls |-> bits_call.calls + 1],
                      o.bits, o.overflow)
    /\ UNCHANGED <<cfg, filters, present, inserts, removes>>

\* get_uint; after_set says that it reads the field the last call has set.
GetUint(position, size) ==
    /\ profile # "debug"
    /\ position + size <= Bits_len(bits)
    /\ LET o == get_uint(bits, position, size)
           after_set == /\ bits_call.op = "set"
                        /\ bits_call.position = position
                        /\ bits_call.size = size
       IN  BitsReturn([op |-> "get", position |-> position, size |-> size, value |-> IF after_set THEN bits_call.value ELSE {}, ret |-> o.ret, overflow |-> FALSE, after_set |-> after_set, calls |-> bits_call.calls],
                      bits, o.overflow)
    /\ UNCHANGED <<cfg, filters, present, inserts, removes>>

NextBits ==
    \/ \E position \in Positions, size \in Widths, value \in Values : SetUint(position, size, value)
    \/ \E position \in Positions, size \in Widths : GetUint(position, size)

SpecBits == InitBits /\ [][NextBits]_vars

\* --------------------------------------------------------------- properties

\* The items that are in the set: inserted more often than removed.
Present == {x \in Items : present[x] > 0}

Contains(x) == ScalableCuckooFilter_contains(filters, x)

\* A filter of the list holds a kick-overflow entry.
SomeParked == \E k \in 1..Len(filters) : is_nearly_full(filters[k])

\* No item of the set is reported absent.
NoFalseNegative == \A x \in Present : Contains(x)

\* C1: in insert-only histories of a filter configured with max_kicks >= 1,
\* contains(x) is true of every inserted item x, after its own insert and
\* after every later insert (eviction, parking and growth included).
C1_InsertOnlyNoFalseNegative ==
    cfg.max_kicks >= 1 => \A x \in Present : Contains(x)

\* C1 witness: with max_kicks >= 1 the eviction loop has parked a fingerprint,
\* the list has grown, and a later insert went to the new filter.
C1_Witness ==
    /\ cfg.max_kicks >= 1
    /\ Len(filters) = 2
    /\ is_nearly_full(filters[1])
    /\ filters[2].item_count > 0
    /\ \A x \in Present : Contains(x)

\* C2: in histories of insert and of remove of present items (remove(y) only
\* when y has been inserted more often than removed), every item inserted
\* more often than removed is reported by contains.  Stated for
\* max_kicks >= 1, where insert alone keeps every item findable.
C2_NoFalseNegativeUnderRemoval ==
    cfg.max_kicks >= 1 => \A x \in Present : Contains(x)

\* C3: shrink_to_fit preserves membership: an item that is present and
\* reported by contains before shrink_to_fit is reported by contains after
\* it (max_kicks >= 1, so that the replaying inserts keep their items).
C3_ShrinkPreservesMembership ==
    [][(ShrinkToFit /\ cfg.max_kicks >= 1)
        => \A x \in Present :
              Contains(x) => ScalableCuckooFilter_contains(filters', x)]_vars

\* C4: after any sequence of insert and remove calls, len() is the number of
\* insert calls minus the number of remove calls that returned true (and no
\* filter's counter has wrapped below zero).
C4_LenIsInsertsMinusRemoves ==
    /\ ~Wrapped
    /\ ScalableCuckooFilter_len(filters) = inserts - removes

\* The filter lists that insert(x); insert(x) can leave, from the list fs.
InsertTwice(fs, x) ==
    UNION {{o2.filters : o2 \in ScalableCuckooFilter_insert(cfg, o1.filters, x)}
           : o1 \in ScalableCuckooFilter_insert(cfg, fs, x)}

\* C5: duplicate preservation: from a state in which contains(x) is false,
\* after insert(x); insert(x); remove(x) the call contains(x) returns true,
\* and after one more remove(x) it returns false (in either build profile).
C5_DuplicatePreservation ==
    Running =>
        \A x \in Items :
            ~Contains(x) =>
                \A fs \in InsertTwice(filters, x) : \A debug \in BOOLEAN :
                    LET r1 == ScalableCuckooFilter_remove(fs, x, debug)
                        r2 == ScalableCuckooFilter_remove(r1.filters, x, debug)
                    IN  /\ ~r1.panicked
                        /\ ScalableCuckooFilter_contains(r1.filters, x)
                        /\ ~r2.panicked
                        /\ ~ScalableCuckooFilter_contains(r2.filters, x)

\* The orders in which the items of S can each be removed once.
Orders(S) ==
    {o \in [1..Cardinality(S) -> S] :
        \A i, j \in 1..Cardinality(S) : o[i] = o[j] => i = j}

\* remove of order[k], order[k+1], ... in turn:
\* [filters, all_true, panicked].
RECURSIVE RemoveAll(_, _, _, _)
RemoveAll(fs, order, k, debug) ==
    IF k > Len(order)
    THEN [filters |-> fs, all_true |-> TRUE, panicked |-> FALSE]
    ELSE LET r == ScalableCuckooFilter_remove(fs, order[k], debug)
             rest == RemoveAll(r.filters, order, k + 1, debug)
         IN  IF r.panicked
             THEN [filters |-> fs, all_true |-> FALSE, panicked |-> TRUE]
             ELSE [rest EXCEPT !.all_true = @ /\ r.ret]

\* No present item has fingerprint 0 in a filter of the list.
ZeroFree ==
    \A x \in Present : \A k \in 1..Len(filters) :
        Buckets_fingerprint(filters[k].buckets, hash_item(x)) # 0

\* C6: remove is the inverse of insert: after inserting distinct items (with
\* growth, max_kicks >= 1, no fingerprint 0) and then removing each of them
\* once in any order, every remove returned true, len() is 0, contains is
\* false for each item and a further remove of any of them returns false.
C6_RemoveInvertsInsert ==
    (/\ cfg.max_kicks >= 1
     /\ Running
     /\ Len(filters) >= 2
     /\ ZeroFree
     /\ \A x \in Items : present[x] <= 1)
    => \A order \in Orders(Present) : \A debug \in BOOLEAN :
          LET r == RemoveAll(filters, order, 1, debug)
          IN  /\ ~r.panicked
              /\ r.all_true
              /\ ScalableCuckooFilter_len(r.filters) = 0
              /\ \A x \in Present :
                    /\ ~ScalableCuckooFilter_contains(r.filters, x)
                    /\ ~ScalableCuckooFilter_remove(r.filters, x, debug).ret

\* C7: a remove miss is reported as false and changes nothing: when
\* contains(x) is false, remove(x) returns (no panic), returns false and
\* leaves every filter as it was, in either build profile.
C7_RemoveMissChangesNothing ==
    Running =>
        \A x \in Items :
            ~Contains(x) =>
                \A debug \in BOOLEAN :
                    LET r == ScalableCuckooFilter_remove(filters, x, debug)
                    IN  ~r.panicked /\ ~r.ret /\ r.filters = filters

\* A filter as CuckooFilter::new leaves it: no entry, no exceptional item.
IsEmptyFilter(flt) ==
    /\ flt.item_count = 0
    /\ flt.exceptional_items = << >>
    /\ \A i \in DOMAIN flt.buckets.bits : \A e \in EntryRange(flt.buckets) :
          flt.buckets.bits[i][e] = 0

\* A step of an insert call that returned.
InsertStep == inserts' = inserts + 1 /\ profile' # "debug"

\* C8: automatic growth: an insert that leaves the filter it inserted into
\* nearly full appends exactly one new empty filter; an insert appends at
\* most one filter, and when it returns the last filter is not nearly full.
C8_AutomaticGrowth ==
    [][InsertStep =>
        LET n == Len(filters)
        IN  /\ Len(filters') \in {n, n + 1}
            /\ is_nearly_full(filters'[n])
                  => Len(filters') = n + 1 /\ IsEmptyFilter(filters'[n + 1])
            /\ ~is_nearly_full(filters'[Len(filters')])]_vars

\* An insert has grown the list: the filter it went into is nearly full and
\* the appended one is still empty.
C8_Witness ==
    /\ inserts >= 1
    /\ Len(filters) = 2
    /\ is_nearly_full(filters[1])
    /\ IsEmptyFilter(filters[2])

\* C9: only the last filter receives inserts: an insert leaves every filter
\* other than the one that was last when the call started as it was.
C9_OnlyLastFilterReceivesInserts ==
    [][InsertStep =>
        \A k \in 1..(Len(filters) - 1) : filters'[k] = filters[k]]_vars

\* An insert has gone into the second filter while the first one existed.
C9_Witness ==
    /\ Len(filters) >= 2
    /\ filters[Len(filters)].item_count >= 1
    /\ filters[1].item_count >= 1
    /\ profile = "any"

\* C10: construction yields exactly one empty filter, whose capacity is E
\* times the smallest power of two that is >= ceil(initial_capacity / E):
\* 128, 16 and 1024 for initial_capacity 100, 10 and 1000 with E = 4.
C10_ConstructionYieldsOneEmptyFilter ==
    filters # << >> =>
        LET E == cfg.entries_per_bucket
            need == CHOOSE n \in 0..cfg.initial_capacity :
                        /\ n * E >= cfg.initial_capacity
                        /\ n = 0 \/ (n - 1) * E < cfg.initial_capacity
            capacity == ScalableCuckooFilter_capacity(filters)
        IN  /\ Len(filters) = 1
            /\ ScalableCuckooFilter_len(filters) = 0
            /\ is_empty(filters)
            /\ IsEmptyFilter(filters[1])
            /\ \E k \in 0..10 :
                  /\ Pow2(k) >= need
                  /\ k = 0 \/ Pow2(k - 1) < need
                  /\ capacity = E * Pow2(k)
            /\ E = 4 /\ cfg.initial_capacity = 100 => capacity = 128
            /\ E = 4 /\ cfg.initial_capacity = 10 => capacity = 16
            /\ E = 4 /\ cfg.initial_capacity = 1000 => capacity = 1024

\* finish() has built the filter of new(100, 0.001).
C10_Witness ==
    /\ Len(filters) = 1
    /\ cfg.initial_capacity = 100
    /\ cfg.entries_per_bucket = 4
    /\ cfg.p_inv = 1000
    /\ ScalableCuckooFilter_capacity(filters) = 128

\* C11: the filter list is never empty and never gets shorter: remove and
\* shrink_to_fit leave the number of filters and their creation order (the
\* fingerprint widths, which grow with the position) unchanged, and only an
\* insert lengthens the list.
C11_FilterListNeverShrinks ==
    /\ [](Len(filters) >= 1)
    /\ [][/\ Len(filters') >= Len(filters)
          /\ Len(filters') > Len(filters) => inserts' = inserts + 1
          /\ inserts' = inserts =>
                /\ Len(filters') = Len(filters)
                /\ \A k \in 1..Len(filters) :
                      filters'[k].buckets.fingerprint_bitwidth
                          = filters[k].buckets.fingerprint_bitwidth]_vars

\* A remove has returned true and shrink_to_fit has rebuilt the first of two
\* filters with fewer buckets.
C11_Witness ==
    /\ Len(filters) = 2
    /\ removes >= 1
    /\ Buckets_len(filters[1].buckets) = 1
    /\ filters[1].item_count >= 1

\* C12: geometric growth schedule: the filter created by the k-th call of
\* grow() has the smallest power-of-two bucket count B with
\* B >= ceil(initial_capacity * 2^k / E), and fingerprint width F_0 + k,
\* F_0 being the least n with 2^n >= (2 / p) * 2E (14 for p = 0.001, E = 4).
C12_GeometricGrowthSchedule ==
    \A k \in 0..(Len(filters) - 1) :
        LET flt == filters[k + 1]
            E == cfg.entries_per_bucket
            hint == cfg.initial_capacity * Pow2(k)
            B == Buckets_len(flt.buckets)
            F_0 == CHOOSE n \in 0..20 :
                      /\ Pow2(n) >= 4 * E * cfg.p_inv
                      /\ n = 0 \/ Pow2(n - 1) < 4 * E * cfg.p_inv
        IN  /\ \E j \in 0..16 : B = Pow2(j)
            /\ B * E >= hint
            /\ B = 1 \/ (B \div 2) * E < hint
            /\ flt.buckets.fingerprint_bitwidth = F_0 + k
            /\ flt.buckets.entries_per_bucket = E
            /\ flt.max_kicks = cfg.max_kicks
            /\ E = 4 /\ cfg.p_inv = 1000 => F_0 = 14

\* grow() has run three times on the filter of new(100, 0.001).
C12_Witness ==
    /\ Len(filters) = 3
    /\ cfg.initial_capacity = 100
    /\ cfg.entries_per_bucket = 4
    /\ cfg.p_inv = 1000
    /\ filters[3].buckets.fingerprint_bitwidth = 16
    /\ Buckets_len(filters[3].buckets) = 128

\* C13: len() never exceeds capacity(): the sum of the filters' item counts
\* (none of them wrapped below zero) is at most the sum of their bucket
\* slots and ExceptionalItems lengths.
C13_LenWithinCapacity ==
    /\ ~Wrapped
    /\ ScalableCuckooFilter_len(filters) <= ScalableCuckooFilter_capacity(filters)

\* The (bucket index, fingerprint) pairs of the non-zero slots of b from
\* slot (bucket_i, entry_i) on, in bucket-major order.
RECURSIVE NonZeroSlotsFrom(_, _, _)
NonZeroSlotsFrom(b, bucket_i, entry_i) ==
    IF bucket_i = Buckets_len(b) THEN << >>
    ELSE IF entry_i = b.entries_per_bucket THEN NonZeroSlotsFrom(b, bucket_i + 1, 0)
    ELSE LET f == b.bits[bucket_i][entry_i]
             rest == NonZeroSlotsFrom(b, bucket_i, entry_i + 1)
         IN  IF f = 0 THEN rest ELSE << <<bucket_i, f>> >> \o rest

\* C15: Buckets::iter yields (bucket_index, fingerprint) exactly once for
\* every slot whose fingerprint is non-zero, in bucket-major order, in every
\* bucket state the filter's operations reach.
C15_IterYieldsEveryNonZeroSlot ==
    \A k \in 1..Len(filters) :
        Buckets_iter(filters[k].buckets) = NonZeroSlotsFrom(filters[k].buckets, 0, 0)

\* CuckooFilter::remove reaches Buckets::contains(i0, fingerprint) with
\* fingerprint 0: the item's fingerprint is 0 and ExceptionalItems holds no
\* sentinel for it.
remove_passes_zero(flt, item_hash) ==
    LET fingerprint == Buckets_fingerprint(flt.buckets, item_hash)
        i0 == Buckets_index(flt.buckets, item_hash)
        i1 == AltIndex(flt.buckets, i0, fingerprint)
    IN  /\ fingerprint = 0
        /\ ~ExceptionalItems_contains(flt.exceptional_items, i0, i1, fingerprint)

\* ScalableCuckooFilter::remove from filter k on passes fingerprint 0 to the
\* bucket array of a filter it visits.
RECURSIVE RemovePassesZeroFrom(_, _, _)
RemovePassesZeroFrom(fs, k, item_hash) ==
    IF k > Len(fs) THEN FALSE
    ELSE IF remove_passes_zero(fs[k], item_hash) THEN TRUE
    ELSE IF CuckooFilter_remove(fs[k], item_hash, FALSE).removed THEN FALSE
    ELSE RemovePassesZeroFrom(fs, k + 1, item_hash)

\* C16: fingerprint 0 never reaches the bucket array: no insert, remove or
\* shrink_to_fit call that can be made passes fingerprint 0 to
\* Buckets::contains, try_insert, random_swap or remove_fingerprint.
C16_ZeroNeverReachesBuckets ==
    Running =>
        /\ \A x \in Items :
              /\ ~RemovePassesZeroFrom(filters, 1, hash_item(x))
              /\ \A o \in ScalableCuckooFilter_insert(cfg, filters, x) : ~o.zero_seen
        /\ \A o \in ScalableCuckooFilter_shrink_to_fit(filters) : ~o.zero_seen

\* C17: shrink_to_fit does not change len(): the sum of the filters' item
\* counts is the same before and after the call.
C17_ShrinkKeepsLen ==
    [][ShrinkToFit =>
        ScalableCuckooFilter_len(filters') = ScalableCuckooFilter_len(filters)]_vars

\* The entries of a filter's ExceptionalItems with a non-zero fingerprint
\* (kick-overflow entries).
KickedOut(flt) ==
    {k \in 1..Len(flt.exceptional_items) : flt.exceptional_items[k][1] # 0}

\* C18: kick-overflow entries are stored under the canonical key: an entry
\* (f, k) of ExceptionalItems with f # 0 has k = min(k, index(k XOR hash(f))),
\* the smaller bucket of the pair it belongs to, for every max_kicks.
C18_KickOverflowKeyIsCanonical ==
    \A n \in 1..Len(filters) : \A k \in KickedOut(filters[n]) :
        LET entry == filters[n].exceptional_items[k]
        IN  entry[2] = Min(entry[2], AltIndex(filters[n].buckets, entry[2], entry[1]))

\* An insert step that appended a filter.
GrowthStep == InsertStep /\ Len(filters') > Len(filters)

\* The insert of this step added a kick-overflow entry to the filter that
\* was last when it started.
OwnKickOverflow ==
    Cardinality(KickedOut(filters'[Len(filters)]))
        > Cardinality(KickedOut(filters[Len(filters)]))

\* C19 as stated: growth happens only on kick overflow: an insert appends a
\* filter only if its own eviction loop gave up and added a
\* non-zero-fingerprint entry to the last filter's ExceptionalItems.
C19_GrowthOnlyOnOwnKickOverflow ==
    [][GrowthStep => OwnKickOverflow]_vars

\* C19 amended: an insert appends a filter only if the filter it inserted
\* into holds a kick-overflow entry when it returns, added by this insert's
\* eviction loop or already there when the call started (left by the replay
\* of a shrink_to_fit); without such an entry, before or after, no insert
\* grows the list.
C19_GrowthOnlyOnKickOverflow ==
    [][GrowthStep =>
        /\ is_nearly_full(filters'[Len(filters)])
        /\ OwnKickOverflow \/ is_nearly_full(filters[Len(filters)])]_vars

\* Two inserts filled two of the four buckets, shrink_to_fit rebuilt the
\* filter with two buckets and parked one entry, and a third insert, which
\* found a free bucket, has appended a filter.
C19_Witness ==
    /\ cfg.initial_capacity = 4
    /\ inserts = 3
    /\ Len(filters) = 2
    /\ Buckets_len(filters[1].buckets) = 2
    /\ filters[1].item_count = 3
    /\ Cardinality(KickedOut(filters[1])) = 1
    /\ IsEmptyFilter(filters[2])

\* The number of non-zero slots of a bucket array.
NonZeroSlots(b) ==
    Cardinality({s \in (DOMAIN b.bits) \X EntryRange(b) : b.bits[s[1]][s[2]] # 0})

\* C20: each filter's item_count equals the number of non-zero slots of its
\* Buckets plus the length of its ExceptionalItems, and no remove has taken
\* it below 0.
C20_ItemCountMatchesEntries ==
    \A k \in 1..Len(filters) :
        /\ filters[k].item_count >= 0
        /\ filters[k].item_count
              = NonZeroSlots(filters[k].buckets) + Len(filters[k].exceptional_items)

\* The smaller bucket of the candidate pair {j, index(j XOR hash(f))}.
PairKey(b, j, f) == Min(j, AltIndex(b, j, f))

\* The number of stored entries of a filter with fingerprint f # 0 or a
\* sentinel (f = 0) whose candidate pair has key: bucket slots holding f in
\* a bucket of the pair, and ExceptionalItems entries of the pair.
EntryCount(flt, f, key) ==
    LET b == flt.buckets
        slots == {s \in (DOMAIN b.bits) \X EntryRange(b) :
                    /\ f # 0
                    /\ b.bits[s[1]][s[2]] = f
                    /\ PairKey(b, s[1], f) = key}
        parked == {n \in 1..Len(flt.exceptional_items) :
                    /\ flt.exceptional_items[n][1] = f
                    /\ PairKey(b, flt.exceptional_items[n][2], f) = key}
    IN  Cardinality(slots) + Cardinality(parked)

\* The (fingerprint, pair key) values that occur among a filter's entries.
StoredEntries(flt) ==
    LET b == flt.buckets
    IN  {<<b.bits[s[1]][s[2]], PairKey(b, s[1], b.bits[s[1]][s[2]])>> :
            s \in {s \in (DOMAIN b.bits) \X EntryRange(b) : b.bits[s[1]][s[2]] # 0}}
        \cup {<<flt.exceptional_items[n][1],
                PairKey(b, flt.exceptional_items[n][2], flt.exceptional_items[n][1])>> :
                n \in 1..Len(flt.exceptional_items)}

\* C21: eviction preserves stored entries: with max_kicks >= 1, whatever the
\* rng draws, an insert of an item into the last filter changes the multiset
\* of (fingerprint, candidate pair) entries of that filter by adding exactly
\* the item's own entry.
C21_EvictionPreservesEntries ==
    (Running /\ cfg.max_kicks >= 1) =>
        \A x \in Items :
            LET flt == filters[Len(filters)]
                f == Buckets_fingerprint(flt.buckets, hash_item(x))
                i0 == Buckets_index(flt.buckets, hash_item(x))
                own == <<f, PairKey(flt.buckets, i0, f)>>
            IN  \A o \in CuckooFilter_insert(flt, hash_item(x)) :
                    \A e \in StoredEntries(flt) \cup StoredEntries(o.filter) \cup {own} :
                        EntryCount(o.filter, e[1], e[2])
                            = EntryCount(flt, e[1], e[2]) + (IF e = own THEN 1 ELSE 0)

\* An eviction loop has given up with max_kicks >= 1: the first filter holds
\* a full bucket and a kick-overflow entry, and nothing was removed.
C21_Witness ==
    /\ cfg.max_kicks >= 1
    /\ removes = 0
    /\ Len(filters) = 2
    /\ Cardinality(KickedOut(filters[1])) = 1
    /\ filters[1].item_count = inserts
    /\ inserts >= 2

\* The number of stored entries of a filter: non-zero bucket slots and
\* ExceptionalItems elements.
StoredCount(flt) == NonZeroSlots(flt.buckets) + Len(flt.exceptional_items)

\* What C22 says of a remove(x) that took the list fs to gs and returned
\* true: exactly one filter changed, it is the earliest one holding a match
\* for x, it lost exactly one stored entry and its item_count fell by 1.
RemovedOneInstance(fs, gs, x) ==
    /\ Len(gs) = Len(fs)
    /\ \E k \in 1..Len(fs) :
          /\ \A j \in 1..Len(fs) : j # k => gs[j] = fs[j]
          /\ \A j \in 1..(k - 1) : ~CuckooFilter_contains(fs[j], hash_item(x))
          /\ CuckooFilter_contains(fs[k], hash_item(x))
          /\ StoredCount(gs[k]) = StoredCount(fs[k]) - 1
          /\ gs[k].item_count = fs[k].item_count - 1
          /\ gs[k].item_count >= 0

\* C22: one remove deletes exactly one instance: a remove call that returns
\* true (in either build profile) deletes exactly one stored entry from the
\* earliest filter that holds a match and lowers that filter's item_count
\* by exactly 1, leaving everything else unchanged.
C22_RemoveDeletesOneInstance ==
    Running =>
        \A x \in Items : \A debug \in BOOLEAN :
            LET r == ScalableCuckooFilter_remove(filters, x, debug)
            IN  r.ret => RemovedOneInstance(filters, r.filters, x)

\* C23: random_swap is only ever called on a full bucket with a non-zero
\* incoming fingerprint: in no insert and in no shrink_to_fit replay that can
\* be made, whatever the rng draws, does a random_swap displace or write
\* fingerprint 0.
C23_RandomSwapOnFullBucketOnly ==
    Running =>
        /\ \A x \in Items :
              \A o \in CuckooFilter_insert(filters[Len(filters)], hash_item(x)) :
                  ~o.zero_seen /\ (o.swaps > 0 => NonZeroSlots(o.filter.buckets)
                                      >= NonZeroSlots(filters[Len(filters)].buckets))
        /\ \A k \in 1..Len(filters) :
              \A o \in CuckooFilter_shrink_to_fit(filters[k]) : ~o.zero_seen

\* An eviction loop has made max_kicks = MaxKicks random swaps and given up.
C23_Witness ==
    /\ cfg.max_kicks = MaxKicks
    /\ removes = 0
    /\ Len(filters) >= 2
    /\ is_nearly_full(filters[1])
    /\ NonZeroSlots(filters[1].buckets) >= 1

\* C24: each filter's ExceptionalItems list is sorted in ascending
\* lexicographic order of (fingerprint, bucket key), equal elements allowed,
\* so the zero-fingerprint sentinels precede the kick-overflow entries.
C24_ExceptionalItemsSorted ==
    \A k \in 1..Len(filters) :
        LET v == filters[k].exceptional_items
        IN  \A n \in 1..(Len(v) - 1) :
                \/ v[n][1] < v[n + 1][1]
                \/ v[n][1] = v[n + 1][1] /\ v[n][2] <= v[n + 1][2]

\* A sentinel was inserted into a filter whose list already held the
\* kick-overflow entry parked by a shrink_to_fit replay.
C24_Witness ==
    /\ cfg.initial_capacity = 4
    /\ Buckets_len(filters[1].buckets) = 2
    /\ Len(filters[1].exceptional_items) = 2
    /\ filters[1].exceptional_items[1][1] = 0
    /\ filters[1].exceptional_items[2][1] # 0

\* C25: is_nearly_full() of a filter is true if and only if its
\* ExceptionalItems list holds at least one entry with a non-zero
\* fingerprint.
C25_NearlyFullIffKickedOutEntry ==
    \A k \in 1..Len(filters) :
        is_nearly_full(filters[k])
            <=> \E n \in 1..Len(filters[k].exceptional_items) :
                    filters[k].exceptional_items[n][1] # 0

\* A list holding a sentinel and then a kick-overflow entry reports true.
C25_Witness ==
    /\ Len(filters) = 2
    /\ Len(filters[1].exceptional_items) >= 2
    /\ filters[1].exceptional_items[1][1] = 0
    /\ is_nearly_full(filters[1])
    /\ ~is_nearly_full(filters[2])

\* C26: the candidate-bucket relation is symmetric: for the bucket count B
\* of every filter (a power of two, B = 1 included), every bucket i < B and
\* every fingerprint f of the filter's width, alt(i) = index(i XOR hash(f))
\* is < B and alt(alt(i)) = i; and reducing i and alt(i) modulo a smaller
\* power of two, as shrink_to_fit does, gives a pair related by alt in the
\* smaller bucket array.
C26_CandidatePairSymmetric ==
    \A k \in 1..Len(filters) :
        LET b == filters[k].buckets
        IN  \A i \in 0..(Buckets_len(b) - 1) :
            \A f \in 0..(Pow2(b.fingerprint_bitwidth) - 1) :
                /\ AltIndex(b, i, f) \in 0..(Buckets_len(b) - 1)
                /\ AltIndex(b, AltIndex(b, i, f), f) = i
                /\ \A w \in 0..b.bucket_index_bitwidth :
                      LET shrunk == [b EXCEPT !.bucket_index_bitwidth = w]
                      IN  Buckets_index(shrunk, AltIndex(b, i, f))
                              = AltIndex(shrunk, Buckets_index(shrunk, i), f)

\* Filters of one, two and four buckets have been built.
C26_Witness ==
    /\ Len(filters) = 3
    /\ Buckets_len(filters[1].buckets) = 1
    /\ Buckets_len(filters[2].buckets) = 2
    /\ Buckets_len(filters[3].buckets) = 4

\* The smallest power of two p with p * E >= item_count (1 for item_count 0).
RequiredBuckets(item_count, E) ==
    CHOOSE p \in {Pow2(j) : j \in 0..8} :
        /\ p * E >= item_count
        /\ p = 1 \/ (p \div 2) * E < item_count

\* C27: shrink sizing: shrink_to_fit leaves each filter with
\* min(old bucket count, smallest power of two >= ceil(item_count / E))
\* buckets, item_count taken before the call; it leaves the filter as it was
\* when that count is not strictly smaller, and it keeps the fingerprint
\* width, E and max_kicks.
C27_ShrinkSizing ==
    [][ShrinkToFit =>
        /\ Len(filters') = Len(filters)
        /\ \A k \in 1..Len(filters) :
              LET old == filters[k]
                  new == filters'[k]
                  B == Buckets_len(old.buckets)
                  required == RequiredBuckets(old.item_count, old.buckets.entries_per_bucket)
              IN  /\ Buckets_len(new.buckets) = Min(B, required)
                  /\ Buckets_len(new.buckets) <= B
                  /\ required >= B => new = old
                  /\ new.buckets.fingerprint_bitwidth = old.buckets.fingerprint_bitwidth
                  /\ new.buckets.entries_per_bucket = old.buckets.entries_per_bucket
                  /\ new.max_kicks = old.max_kicks]_vars

\* shrink_to_fit has rebuilt a filter of four buckets holding two items with
\* two buckets.
C27_Witness ==
    /\ cfg.initial_capacity = 4
    /\ Len(filters) = 1
    /\ inserts = 2
    /\ removes = 0
    /\ Buckets_len(filters[1].buckets) = 2
    /\ filters[1].item_count = 2

\* The value v AND (2^w - 1) of a field of width w.
LowBits(v, w) == v \cap (0..(w - 1))

\* C30: bit-field round trip: get_uint(p, w) called right after
\* set_uint(p, w, v), for 1 <= w <= 64 and p + w <= len(), returns
\* v AND (2^w - 1), and neither call overflows, including w = 64 and fields
\* that span nine bytes.
C30_BitFieldRoundTrip ==
    /\ bits_call.op = "set" => ~bits_call.overflow
    /\ bits_call.op = "get" /\ bits_call.after_set =>
          /\ ~bits_call.overflow
          /\ bits_call.ret = LowBits(bits_call.value, bits_call.size)

\* The round trip holds for the fields that end before bit 64 of their first
\* byte (p mod 8 + w < 64), which are the fields Buckets reads and writes.
BitFieldRoundTripBelow64 ==
    (bits_call.position % 8) + bits_call.size < 64 => C30_BitFieldRoundTrip

\* A field of width 61 at bit 8 has been set and read back.
BitFieldRoundTripBelow64_Witness ==
    /\ bits_call.op = "get"
    /\ bits_call.after_set
    /\ bits_call.position = 8
    /\ bits_call.size = 61
    /\ bits_call.ret = LowBits(0..63, 61)

\* The number of stored entries of flt that carry the fingerprint f: slots
\* (for f # 0) and ExceptionalItems.
FingerprintCount(flt, f) ==
    Cardinality({s \in (DOMAIN flt.buckets.bits) \X EntryRange(flt.buckets) :
                    f # 0 /\ flt.buckets.bits[s[1]][s[2]] = f})
        + Cardinality({k \in 1..Len(flt.exceptional_items) : flt.exceptional_items[k][1] = f})

\* What C28 says of the outcomes outs of one insert_fingerprint call on flt:
\* the call ends, after at most max_kicks swaps, with one entry more stored:
\* in the ExceptionalItems when the loop gave up, in a slot otherwise (the
\* fingerprint 0 is stored in the ExceptionalItems without any swap).
InsertCompletes(flt, fingerprint, outs) ==
    /\ outs # {}
    /\ \A o \in outs :
          /\ o.swaps <= flt.max_kicks
          /\ o.parked => o.swaps = flt.max_kicks
          /\ o.filter.item_count = flt.item_count + 1
          /\ StoredCount(o.filter) = StoredCount(flt) + 1
          /\ IF o.parked \/ fingerprint = 0
             THEN Len(o.filter.exceptional_items) = Len(flt.exceptional_items) + 1
             ELSE NonZeroSlots(o.filter.buckets) = NonZeroSlots(flt.buckets) + 1
          /\ \A f \in 0..(Pow2(flt.buckets.fingerprint_bitwidth) - 1) :
                FingerprintCount(o.filter, f)
                    = FingerprintCount(flt, f) + (IF f = fingerprint THEN 1 ELSE 0)

\* Every insert replayed by shrink_to_fit from entry k on completes.
RECURSIVE ReplayCompletes(_, _, _)
ReplayCompletes(entries, k, shrunk_filter) ==
    IF k > Len(entries) THEN TRUE
    ELSE LET shrunk_i == Buckets_index(shrunk_filter.buckets, entries[k][1])
             outs == insert_fingerprint(shrunk_filter, shrunk_i, entries[k][2])
         IN  /\ InsertCompletes(shrunk_filter, entries[k][2], outs)
             /\ \A o \in outs : ReplayCompletes(entries, k + 1, o.filter)

\* C28: insertion always completes: every CuckooFilter insert, and every
\* insert replayed inside shrink_to_fit, ends after at most max_kicks
\* random_swap steps with the fingerprint it carries stored in a slot or
\* parked in the ExceptionalItems; insert never fails or drops a fingerprint.
C28_InsertionAlwaysCompletes ==
    Running =>
        /\ \A x \in Items :
              LET flt == filters[Len(filters)]
              IN  InsertCompletes(flt, Buckets_fingerprint(flt.buckets, hash_item(x)),
                                  CuckooFilter_insert(flt, hash_item(x)))
        /\ \A k \in 1..Len(filters) :
              LET flt == filters[k]
              IN  ReplayCompletes(Buckets_iter(flt.buckets), 1,
                                  CuckooFilter_new(flt.buckets.fingerprint_bitwidth,
                                                   flt.buckets.entries_per_bucket,
                                                   flt.item_count, flt.max_kicks))

\* An eviction loop of max_kicks = MaxKicks swaps has given up and parked the
\* fingerprint it carried; the filter counts three items, all of them stored.
C28_Witness ==
    /\ cfg.max_kicks = MaxKicks
    /\ removes = 0
    /\ inserts = 3
    /\ KickedOut(filters[1]) # {}
    /\ filters[1].item_count = 3
    /\ StoredCount(filters[1]) = 3

\* C29: in every reachable state every filter's bucket count is a power of
\* two and at least 1 (also for a filter created with capacity hint 0 and
\* for a filter shrunk while item_count is 0), its storage holds exactly that
\* many buckets, and index(hash) is below the bucket count for every hash.
C29_BucketCountPowerOfTwo ==
    \A k \in 1..Len(filters) :
        LET b == filters[k].buckets
            B == Buckets_len(b)
        IN  /\ B >= 1
            /\ \E j \in 0..HashBits : B = Pow2(j)
            /\ DOMAIN b.bits = 0..(B - 1)
            /\ \A hash \in 0..(Pow2(HashBits) - 1) : Buckets_index(b, hash) \in 0..(B - 1)

\* A first filter built for capacity 3 with four buckets has been shrunk to
\* one bucket while it was empty, before any insert.
C29_Witness ==
    /\ cfg.initial_capacity = 3
    /\ cfg.entries_per_bucket = 1
    /\ inserts = 0
    /\ Len(filters) = 1
    /\ filters[1].item_count = 0
    /\ Buckets_len(filters[1].buckets) = 1

\* A filter built with capacity hint 0 has one bucket, and so has every
\* filter grown after it.
CapacityHintZero ==
    cfg.initial_capacity = 0 =>
        \A k \in 1..Len(filters) : Buckets_len(filters[k].buckets) = 1

\* Bit q of the byte vector b.
BitAt(b, q) == (q % 8) \in b[(q \div 8) + 1]

\* A set_uint call has returned in this step.
SetUintStep ==
    /\ bits_call'.op = "set"
    /\ bits_call'.calls = bits_call.calls + 1
    /\ profile' # "debug"

\* What C31 says of a step that is a set_uint(p, w, v) call: the bits of
\* [p, p + w) are the low w bits of v and every other bit is as before.
SetUintFrame ==
    LET p == bits_call'.position
        w == bits_call'.size
        v == bits_call'.value
    IN  /\ Len(bits') = Len(bits)
        /\ \A q \in 0..(Bits_len(bits) - 1) :
              BitAt(bits', q) = IF q \in p..(p + w - 1)
                                THEN (q - p) \in v
                                ELSE BitAt(bits, q)

\* C31: set_uint(p, w, v) writes only the low w bits of v and leaves every
\* bit outside [p, p + w) unchanged, for every 64-bit v, also one with bits
\* set at or above position w.  Stated of the calls in which no shift
\* overflows (p mod 8 + w < 64).
C31_SetUintWritesOnlyItsField ==
    [][SetUintStep /\ ~bits_call'.overflow => SetUintFrame]_vars

\* The same of the calls whose value fits the field (v < 2^w), which are
\* the calls Buckets::set_fingerprint makes.
SetUintFrameOfFittingValue ==
    [][(/\ SetUintStep
        /\ ~bits_call'.overflow
        /\ bits_call'.value \subseteq 0..(bits_call'.size - 1)) => SetUintFrame]_vars

\* The value 5 has been written into a field of width 5 at bit 3 over bytes
\* that held other bits.
SetUintFrameOfFittingValue_Witness ==
    /\ bits_call.op = "set"
    /\ bits_call.calls = 2
    /\ bits_call.position = 3
    /\ bits_call.size = 5
    /\ bits_call.value = {0, 2}
    /\ BitAt(bits, 0)
    /\ BitAt(bits, 8)

====
